---- MODULE Spec2Model ----
(***************************************************************************)
(* Model of doc/plot_wave_height_certainty_forecast.py: a single linear    *)
(* pass  load -> extract -> derive -> print -> render -> show.             *)
(*                                                                         *)
(* Numbers.  JSON numbers and numpy float64 values are modelled as exact   *)
(* rationals n/d extended with the IEEE-754 specials +inf, -inf and nan    *)
(* that numpy's element-wise division produces; rounding of finite values  *)
(* is not modelled.                                                        *)
(* Strings.  A date string is a sequence of one-character strings, so that *)
(* slicing and the strptime pattern are computed character by character.   *)
(***************************************************************************)
EXTENDS Integers, Sequences, FiniteSets

(***************************************************************************)
(* Extended rationals                                                      *)
(***************************************************************************)
Abs(x) == IF x < 0 THEN -x ELSE x

RECURSIVE Gcd(_, _)
Gcd(a, b) == IF b = 0 THEN a ELSE Gcd(b, a % b)

Sign(x) == IF x < 0 THEN -1 ELSE IF x > 0 THEN 1 ELSE 0

\* n/d in lowest terms with d > 0  (a finite float64 value)
Fin(n, d) ==
    LET g == Gcd(Abs(n), Abs(d))
        s == IF d < 0 THEN -1 ELSE 1
    IN  [k |-> "fin", n |-> (s * n) \div g, d |-> (s * d) \div g]

Num(n) == Fin(n, 1)
PosInf == [k |-> "inf", n |-> 1, d |-> 0]
NegInf == [k |-> "inf", n |-> -1, d |-> 0]
NaN == [k |-> "nan", n |-> 0, d |-> 0]
Inf(s) == IF s < 0 THEN NegInf ELSE PosInf

IsFinite(a) == a.k = "fin"
IsNaN(a) == a.k = "nan"

Neg(a) == IF a.k = "fin" THEN Fin(-a.n, a.d) ELSE IF a.k = "inf" THEN Inf(-a.n) ELSE NaN

\* float64 addition
FAdd(a, b) ==
    IF a.k = "nan" \/ b.k = "nan" THEN NaN
    ELSE IF a.k = "inf" /\ b.k = "inf" THEN (IF a.n = b.n THEN a ELSE NaN)
    ELSE IF a.k = "inf" THEN a
    ELSE IF b.k = "inf" THEN b
    ELSE Fin(a.n * b.d + b.n * a.d, a.d * b.d)

\* float64 subtraction
FSub(a, b) == FAdd(a, Neg(b))

\* float64 multiplication
FMul(a, b) ==
    IF a.k = "nan" \/ b.k = "nan" THEN NaN
    ELSE IF a.k = "fin" /\ b.k = "fin" THEN Fin(a.n * b.n, a.d * b.d)
    ELSE IF a.n = 0 \/ b.n = 0 THEN NaN
    ELSE Inf(Sign(a.n) * Sign(b.n))

\* numpy true_divide: x/0 is +-inf, 0/0 is nan, and only a RuntimeWarning is
\* issued; no exception is raised
FDiv(a, b) ==
    IF a.k = "nan" \/ b.k = "nan" THEN NaN
    ELSE IF a.k = "inf" /\ b.k = "inf" THEN NaN
    ELSE IF a.k = "inf" THEN Inf(a.n * (IF b.n < 0 THEN -1 ELSE 1))
    ELSE IF b.k = "inf" THEN Num(0)
    ELSE IF b.n = 0 THEN (IF a.n = 0 THEN NaN ELSE Inf(a.n))
    ELSE Fin(a.n * b.d, a.d * b.n)

\* a <= b on non-nan values
FLe(a, b) ==
    IF a.k = "inf" THEN (a.n < 0 \/ b = PosInf)
    ELSE IF b.k = "inf" THEN b.n > 0
    ELSE a.n * b.d <= b.n * a.d

\* the elements of an array
Elems(a) == {a[i] : i \in 1..Len(a)}

\* np.min / np.max of a non-empty array: a nan anywhere gives nan
NpMin(a) ==
    IF \E x \in Elems(a) : IsNaN(x) THEN NaN
    ELSE CHOOSE x \in Elems(a) : \A y \in Elems(a) : FLe(x, y)

NpMax(a) ==
    IF \E x \in Elems(a) : IsNaN(x) THEN NaN
    ELSE CHOOSE x \in Elems(a) : \A y \in Elems(a) : FLe(y, x)

(***************************************************************************)
(* datetime.strptime(s[:-1], '%Y-%m-%dT%H:%M:%S')                          *)
(***************************************************************************)
Digits == {"0", "1", "2", "3", "4", "5", "6", "7", "8", "9"}

DigitVal(c) ==
    CASE c = "0" -> 0 [] c = "1" -> 1 [] c = "2" -> 2 [] c = "3" -> 3
      [] c = "4" -> 4 [] c = "5" -> 5 [] c = "6" -> 6 [] c = "7" -> 7
      [] c = "8" -> 8 [] c = "9" -> 9

At(s, i) == IF i >= 1 /\ i <= Len(s) THEN s[i] ELSE "<end>"
IsDigit(s, i) == At(s, i) \in Digits
InRange(s, i, lo, hi) == IsDigit(s, i) /\ DigitVal(s[i]) >= lo /\ DigitVal(s[i]) <= hi

NoMatch == [ok |-> FALSE, val |-> 0, next |-> 0]
Two(s, i) == [ok |-> TRUE, val |-> 10 * DigitVal(s[i]) + DigitVal(s[i + 1]), next |-> i + 2]
One(s, i) == [ok |-> TRUE, val |-> DigitVal(s[i]), next |-> i + 1]

\* the regular expression of each directive, alternatives tried in order
\* %Y: \d\d\d\d
MatchY(s, i) ==
    IF IsDigit(s, i) /\ IsDigit(s, i + 1) /\ IsDigit(s, i + 2) /\ IsDigit(s, i + 3)
    THEN [ok |-> TRUE,
          val |-> 1000 * DigitVal(s[i]) + 100 * DigitVal(s[i + 1])
                  + 10 * DigitVal(s[i + 2]) + DigitVal(s[i + 3]),
          next |-> i + 4]
    ELSE NoMatch

\* %m: 1[0-2]|0[1-9]|[1-9]
Matchm(s, i) ==
    IF At(s, i) = "1" /\ InRange(s, i + 1, 0, 2) THEN Two(s, i)
    ELSE IF At(s, i) = "0" /\ InRange(s, i + 1, 1, 9) THEN Two(s, i)
    ELSE IF InRange(s, i, 1, 9) THEN One(s, i)
    ELSE NoMatch

\* %d: 3[0-1]|[1-2]\d|0[1-9]|[1-9]| [1-9]
Matchd(s, i) ==
    IF At(s, i) = "3" /\ InRange(s, i + 1, 0, 1) THEN Two(s, i)
    ELSE IF InRange(s, i, 1, 2) /\ IsDigit(s, i + 1) THEN Two(s, i)
    ELSE IF At(s, i) = "0" /\ InRange(s, i + 1, 1, 9) THEN Two(s, i)
    ELSE IF InRange(s, i, 1, 9) THEN One(s, i)
    ELSE IF At(s, i) = " " /\ InRange(s, i + 1, 1, 9)
         THEN [ok |-> TRUE, val |-> DigitVal(s[i + 1]), next |-> i + 2]
    ELSE NoMatch

\* %H: 2[0-3]|[0-1]\d|\d
MatchH(s, i) ==
    IF At(s, i) = "2" /\ InRange(s, i + 1, 0, 3) THEN Two(s, i)
    ELSE IF InRange(s, i, 0, 1) /\ IsDigit(s, i + 1) THEN Two(s, i)
    ELSE IF IsDigit(s, i) THEN One(s, i)
    ELSE NoMatch

\* %M: [0-5]\d|\d
MatchM(s, i) ==
    IF InRange(s, i, 0, 5) /\ IsDigit(s, i + 1) THEN Two(s, i)
    ELSE IF IsDigit(s, i) THEN One(s, i)
    ELSE NoMatch

\* %S: 6[0-1]|[0-5]\d|\d
MatchS(s, i) ==
    IF At(s, i) = "6" /\ InRange(s, i + 1, 0, 1) THEN Two(s, i)
    ELSE IF InRange(s, i, 0, 5) /\ IsDigit(s, i + 1) THEN Two(s, i)
    ELSE IF IsDigit(s, i) THEN One(s, i)
    ELSE NoMatch

\* a literal of the format; the pattern is compiled case-insensitively
MatchLit(s, i, cs) ==
    IF At(s, i) \in cs THEN [ok |-> TRUE, val |-> 0, next |-> i + 1] ELSE NoMatch

IsLeap(y) == (y % 4 = 0 /\ y % 100 # 0) \/ y % 400 = 0

DaysInMonth(y, m) ==
    IF m = 2 THEN (IF IsLeap(y) THEN 29 ELSE 28)
    ELSE IF m \in {4, 6, 9, 11} THEN 30 ELSE 31

BadTime == [ok |-> FALSE, year |-> 0, month |-> 0, day |-> 0,
            hour |-> 0, minute |-> 0, second |-> 0]

DateTime(y, mo, d, h, mi, s) ==
    [ok |-> TRUE, year |-> y, month |-> mo, day |-> d,
     hour |-> h, minute |-> mi, second |-> s]

\* the directives and literals of '%Y-%m-%dT%H:%M:%S', in order
Format == <<"%Y", "-", "%m", "-", "%d", "T", "%H", ":", "%M", ":", "%S">>

\* the pattern of one element of the format, matched at position i
MatchElem(e, s, i) ==
    CASE e = "%Y" -> MatchY(s, i)
      [] e = "%m" -> Matchm(s, i)
      [] e = "%d" -> Matchd(s, i)
      [] e = "%H" -> MatchH(s, i)
      [] e = "%M" -> MatchM(s, i)
      [] e = "%S" -> MatchS(s, i)
      [] e = "T" -> MatchLit(s, i, {"T", "t"})
      [] OTHER -> MatchLit(s, i, {e})

\* format_regex.match(s): the elements from the k-th on, matched from
\* position i; vals collects the value of every element matched so far
RECURSIVE MatchFrom(_, _, _, _)
MatchFrom(s, i, k, vals) ==
    IF k > Len(Format) THEN [ok |-> TRUE, vals |-> vals, next |-> i]
    ELSE LET m == MatchElem(Format[k], s, i)
         IN  IF m.ok THEN MatchFrom(s, m.next, k + 1, Append(vals, m.val))
             ELSE [ok |-> FALSE, vals |-> vals, next |-> i]

\* the datetime constructor on the matched fields
MakeDateTime(v) ==
    IF v[1] < 1 \/ v[5] > DaysInMonth(v[1], v[3]) \/ v[11] > 59 THEN BadTime
    ELSE DateTime(v[1], v[3], v[5], v[7], v[9], v[11])

\* the outcome of a match: ValueError when nothing matched or when
\* unconverted data remains
Converted(s, found) ==
    IF ~found.ok THEN BadTime
    ELSE IF found.next # Len(s) + 1 THEN BadTime
    ELSE MakeDateTime(found.vals)

\* datetime.strptime(s, '%Y-%m-%dT%H:%M:%S'): ok = FALSE stands for ValueError
Strptime(s) == Converted(s, MatchFrom(s, 1, 1, <<>>))

\* s[:-1]: all but the last character (the empty string stays empty)
SliceNoDrop(s) == s

DropLast(s) == IF Len(s) = 0 THEN s ELSE SubSeq(s, 1, Len(s) - 1)

\* line 10-11: datetime.datetime.strptime(forecast['date'][:-1], fmt)
ParseDate(s) == Strptime(DropLast(s))

(***************************************************************************)
(* The input file gfs_wave_forecast_nws_wind.json                          *)
(***************************************************************************)
\* bound on the number of freely chosen records of an input
MaxLen == 2

\* normalized_spread[0:48]
PrintWindow == 48

Pad2(n) == <<(CHOOSE c \in Digits : DigitVal(c) = n \div 10),
             (CHOOSE c \in Digits : DigitVal(c) = n % 10)>>

Pad4(n) == Pad2(n \div 100) \o Pad2(n % 100)

\* the zero-padded ISO-8601 text of an instant, without zone marker
IsoText(y, mo, d, h, mi, s) ==
    Pad4(y) \o <<"-">> \o Pad2(mo) \o <<"-">> \o Pad2(d) \o <<"T">>
    \o Pad2(h) \o <<":">> \o Pad2(mi) \o <<":">> \o Pad2(s)

AllKeys == {"date", "wave_summary", "wave_height_spread", "wave_height_mean"}

\* one forecast object of the JSON array: keys is the set of keys present,
\* wave_summary stands for the path wave_summary.wave_height.value
Record(dstr, wh, sp, mean, keys) ==
    [keys |-> keys, date |-> dstr, wave_height |-> Num(wh),
     wave_height_spread |-> Num(sp), wave_height_mean |-> Num(mean)]

DateZ1 == IsoText(2024, 1, 1, 0, 0, 0) \o <<"Z">>
DateZ2 == IsoText(2024, 1, 1, 3, 0, 0) \o <<"Z">>
DateNoMarker == IsoText(2024, 1, 1, 0, 0, 5)
DateFraction == IsoText(2024, 1, 1, 0, 0, 0) \o <<".", "0", "Z">>

BaseRecord == Record(DateZ1, 5, 1, 5, AllKeys)

\* records with every key present and a date that strptime accepts
ValidRecords ==
    { BaseRecord,
      Record(DateZ2, 3, 2, 10, AllKeys),
      Record(DateZ2, 5, 2, 0, AllKeys),
      Record(DateZ1, 4, 0, 0, AllKeys),
      Record(DateZ2, 6, -1, 0, AllKeys) }

\* records with a structural defect
DefectRecords ==
    { Record(DateNoMarker, 5, 1, 5, AllKeys),
      Record(DateFraction, 5, 1, 5, AllKeys),
      Record(DateFraction, 5, 1, 5, AllKeys \ {"wave_height_mean"}) }
    \cup { Record(DateZ1, 5, 1, 5, AllKeys \ {k}) : k \in AllKeys }

RecordSet == ValidRecords \cup DefectRecords

SeqsUpTo(S, n) == UNION { [1..m -> S] : m \in 0..n }

Repeat(x, n) == [i \in 1..n |-> x]

\* the arrays the file may hold: up to MaxLen arbitrary records, alone or
\* after a run of base records that ends one short of the print window, so
\* that the arbitrary records fall on both sides of its edge
Inputs ==
    { Repeat(BaseRecord, p) \o tail :
        p \in {0, PrintWindow - 1}, tail \in SeqsUpTo(RecordSet, MaxLen) }

(***************************************************************************)
(* State of one run of the script                                          *)
(***************************************************************************)
VARIABLES
    file,               \* what the path names: "missing", "malformed", "valid"
    content,            \* the JSON array stored in a valid file
    variant,            \* "half": the script under doc/; "full": its sibling
    pc,                 \* the statement about to run, "done" or "aborted"
    error,              \* the exception that ended the run, or "none"
    f,                  \* the file handle: "unopened", "open", "closed"
    defined,            \* the module-level names bound so far
    wave_forecast,
    date,
    wave_height,
    wave_height_spread,
    wave_height_mean,
    normalized_spread,
    stdout,             \* the lines printed
    layers,             \* the chart layers drawn, in order
    axes,               \* the axis decorations set
    shown,              \* plt.show() was called
    arg,                \* strptime harness: the date string
    ret,                \* strptime harness: the result
    returned            \* strptime harness: the call was made

vars == <<file, content, variant, pc, error, f, defined, wave_forecast, date,
          wave_height, wave_height_spread, wave_height_mean, normalized_spread,
          stdout, layers, axes, shown, arg, ret, returned>>

runVars == <<file, content, variant, pc, error, f, defined, wave_forecast, date,
             wave_height, wave_height_spread, wave_height_mean, normalized_spread,
             stdout, layers, axes, shown>>

harnessVars == <<arg, ret, returned>>

inputVars == <<file, content, variant>>

InitRun ==
    /\ pc = "open"
    /\ error = "none"
    /\ f = "unopened"
    /\ defined = {}
    /\ wave_forecast = <<>>
    /\ date = <<>>
    /\ wave_height = <<>>
    /\ wave_height_spread = <<>>
    /\ wave_height_mean = <<>>
    /\ normalized_spread = <<>>
    /\ stdout = <<>>
    /\ layers = <<>>
    /\ axes = {}
    /\ shown = FALSE

Init ==
    /\ file \in {"missing", "malformed", "valid"}
    /\ content \in (IF file = "valid" THEN Inputs ELSE {<<>>})
    /\ variant \in {"half", "full"}
    /\ InitRun
    /\ arg = <<>>
    /\ ret = BadTime
    /\ returned = FALSE

\* an uncaught exception ends the script
Raise(e) == /\ error' = e
            /\ pc' = "aborted"

(***************************************************************************)
(* Lines 6-7: with open(...) as f: wave_forecast = json.load(f)            *)
(***************************************************************************)
\* open(): FileNotFoundError when the path names nothing, else a handle
Open ==
    /\ pc = "open"
    /\ IF file = "missing"
       THEN /\ Raise("FileNotFoundError")
            /\ f' = f
       ELSE /\ f' = "open"
            /\ pc' = "load"
            /\ error' = error
    /\ UNCHANGED <<inputVars, defined, wave_forecast, date, wave_height,
                   wave_height_spread, wave_height_mean, normalized_spread,
                   stdout, layers, axes, shown, harnessVars>>

\* json.load without the with-block: the handle is closed only after a
\* successful parse
LoadLeak ==
    /\ pc = "load"
    /\ IF file = "malformed"
       THEN /\ Raise("JSONDecodeError")
            /\ f' = f
            /\ UNCHANGED <<wave_forecast, defined>>
       ELSE /\ wave_forecast' = content
            /\ defined' = defined \cup {"wave_forecast"}
            /\ f' = "closed"
            /\ pc' = "date"
            /\ error' = error
    /\ UNCHANGED <<inputVars, date, wave_height, wave_height_spread,
                   wave_height_mean, normalized_spread, stdout, layers, axes,
                   shown, harnessVars>>

\* a load that swallows the parse error and goes on with an empty list
LoadLenient ==
    /\ pc = "load"
    /\ f' = "closed"
    /\ wave_forecast' = IF file = "malformed" THEN <<>> ELSE content
    /\ defined' = defined \cup {"wave_forecast"}
    /\ pc' = "date"
    /\ UNCHANGED <<inputVars, error, date, wave_height, wave_height_spread,
                   wave_height_mean, normalized_spread, stdout, layers, axes,
                   shown, harnessVars>>

\* json.load(f) and the exit of the with-block, which closes f whether the
\* body returned or raised
Load ==
    /\ pc = "load"
    /\ f' = "closed"
    /\ IF file = "malformed"
       THEN /\ Raise("JSONDecodeError")
            /\ UNCHANGED <<wave_forecast, defined>>
       ELSE /\ wave_forecast' = content
            /\ defined' = defined \cup {"wave_forecast"}
            /\ pc' = "date"
            /\ error' = error
    /\ UNCHANGED <<inputVars, date, wave_height, wave_height_spread,
                   wave_height_mean, normalized_spread, stdout, layers, axes,
                   shown, harnessVars>>

(***************************************************************************)
(* Lines 10-17: the four list comprehensions                               *)
(***************************************************************************)
\* forecast['date'] or the strptime call raises for this record
DateBad(r) == "date" \notin r.keys \/ ~ParseDate(r.date).ok

\* the first index the date comprehension fails at, 0 when it completes
FirstBadDate(recs) ==
    IF \E i \in 1..Len(recs) : DateBad(recs[i])
    THEN CHOOSE i \in 1..Len(recs) :
            /\ DateBad(recs[i])
            /\ \A j \in 1..(i - 1) : ~DateBad(recs[j])
    ELSE 0

\* the exception a record raises in the date comprehension
DateError(r) == IF "date" \notin r.keys THEN "KeyError" ELSE "ValueError"

\* [strptime(forecast['date'][:-1], fmt) for forecast in wave_forecast]
DateList(recs) == [i \in 1..Len(recs) |-> ParseDate(recs[i].date)]

\* a comprehension over reversed(wave_forecast)
ColumnReversed(recs, key) == [i \in 1..Len(recs) |-> recs[Len(recs) + 1 - i][key]]

\* [forecast[key]['value'] for forecast in wave_forecast]
Column(recs, key) == [i \in 1..Len(recs) |-> recs[i][key]]

ExtractDate ==
    /\ pc = "date"
    /\ LET bad == FirstBadDate(wave_forecast)
       IN  IF bad # 0
           THEN /\ Raise(DateError(wave_forecast[bad]))
                /\ UNCHANGED <<date, defined>>
           ELSE /\ date' = DateList(wave_forecast)
                /\ defined' = defined \cup {"date"}
                /\ pc' = "wave_height"
                /\ error' = error
    /\ UNCHANGED <<inputVars, f, wave_forecast, wave_height, wave_height_spread,
                   wave_height_mean, normalized_spread, stdout, layers, axes,
                   shown, harnessVars>>

ExtractWaveHeight ==
    /\ pc = "wave_height"
    /\ IF \E i \in 1..Len(wave_forecast) : "wave_summary" \notin wave_forecast[i].keys
       THEN /\ Raise("KeyError")
            /\ UNCHANGED <<wave_height, defined>>
       ELSE /\ wave_height' = Column(wave_forecast, "wave_height")
            /\ defined' = defined \cup {"wave_height"}
            /\ pc' = "wave_height_spread"
            /\ error' = error
    /\ UNCHANGED <<inputVars, f, wave_forecast, date, wave_height_spread,
                   wave_height_mean, normalized_spread, stdout, layers, axes,
                   shown, harnessVars>>

ExtractSpread ==
    /\ pc = "wave_height_spread"
    /\ IF \E i \in 1..Len(wave_forecast) :
             "wave_height_spread" \notin wave_forecast[i].keys
       THEN /\ Raise("KeyError")
            /\ UNCHANGED <<wave_height_spread, defined>>
       ELSE /\ wave_height_spread' = Column(wave_forecast, "wave_height_spread")
            /\ defined' = defined \cup {"wave_height_spread"}
            /\ pc' = "wave_height_mean"
            /\ error' = error
    /\ UNCHANGED <<inputVars, f, wave_forecast, date, wave_height,
                   wave_height_mean, normalized_spread, stdout, layers, axes,
                   shown, harnessVars>>

\* forecast.get(...) in place of forecast[...]: a missing mean reads as a
\* default and the run goes on
ExtractMeanLenient ==
    /\ pc = "wave_height_mean"
    /\ wave_height_mean' = Column(wave_forecast, "wave_height_mean")
    /\ defined' = defined \cup {"wave_height_mean"}
    /\ pc' = "normalized_spread"
    /\ UNCHANGED <<inputVars, error, f, wave_forecast, date, wave_height,
                   wave_height_spread, normalized_spread, stdout, layers, axes,
                   shown, harnessVars>>

ExtractMean ==
    /\ pc = "wave_height_mean"
    /\ IF \E i \in 1..Len(wave_forecast) :
             "wave_height_mean" \notin wave_forecast[i].keys
       THEN /\ Raise("KeyError")
            /\ UNCHANGED <<wave_height_mean, defined>>
       ELSE /\ wave_height_mean' = Column(wave_forecast, "wave_height_mean")
            /\ defined' = defined \cup {"wave_height_mean"}
            /\ pc' = "normalized_spread"
            /\ error' = error
    /\ UNCHANGED <<inputVars, f, wave_forecast, date, wave_height,
                   wave_height_spread, normalized_spread, stdout, layers, axes,
                   shown, harnessVars>>

(***************************************************************************)
(* Line 18: normalized_spread = 1 - (wave_height_spread / wave_height_mean) *)
(***************************************************************************)
\* the ratio without the complement
RelativeSpread(spread, mean) ==
    [i \in 1..Len(spread) |-> FDiv(spread[i], mean[i])]

\* a guarded division that maps a zero mean to 0 instead of dividing
NormalizedSpreadGuarded(spread, mean) ==
    [i \in 1..Len(spread) |->
        IF mean[i].n = 0 THEN Num(0)
        ELSE FSub(Num(1), FDiv(spread[i], mean[i]))]

NormalizedSpread(spread, mean) ==
    [i \in 1..Len(spread) |-> FSub(Num(1), FDiv(spread[i], mean[i]))]

Derive ==
    /\ pc = "normalized_spread"
    /\ normalized_spread' = NormalizedSpread(wave_height_spread, wave_height_mean)
    /\ defined' = defined \cup {"normalized_spread"}
    /\ pc' = "print"
    /\ UNCHANGED <<inputVars, error, f, wave_forecast, date, wave_height,
                   wave_height_spread, wave_height_mean, stdout, layers, axes,
                   shown, harnessVars>>

(***************************************************************************)
(* Line 20: print(min - max of normalized_spread[0:48])                    *)
(***************************************************************************)
Min2(a, b) == IF a < b THEN a ELSE b

\* a[0:n]
Slice(a, n) == SubSeq(a, 1, Min2(n, Len(a)))

Window(a) == Slice(a, PrintWindow)

\* np.min and np.max raise ValueError on a zero-size array
PrintMinMax ==
    /\ pc = "print"
    /\ IF Len(Window(normalized_spread)) = 0
       THEN /\ Raise("ValueError")
            /\ stdout' = stdout
       ELSE /\ stdout' = Append(stdout,
                            [min |-> NpMin(Window(normalized_spread)),
                             max |-> NpMax(Window(normalized_spread))])
            /\ pc' = "plot"
            /\ error' = error
    /\ UNCHANGED <<inputVars, f, defined, wave_forecast, date, wave_height,
                   wave_height_spread, wave_height_mean, normalized_spread,
                   layers, axes, shown, harnessVars>>

(***************************************************************************)
(* Lines 22-33: the chart                                                  *)
(***************************************************************************)
Layer(kind, x, y, y2, c) == [kind |-> kind, x |-> x, y |-> y, y2 |-> y2, c |-> c]

\* plt.plot(date, wave_height, ...)
Plot ==
    /\ pc = "plot"
    /\ layers' = Append(layers, Layer("plot", date, wave_height, <<>>, <<>>))
    /\ pc' = "scatter"
    /\ UNCHANGED <<inputVars, error, f, defined, wave_forecast, date,
                   wave_height, wave_height_spread, wave_height_mean,
                   normalized_spread, stdout, axes, shown, harnessVars>>

\* plt.scatter(date, wave_height, c=normalized_spread, vmin=0.0, vmax=1.0)
Scatter ==
    /\ pc = "scatter"
    /\ layers' = Append(layers,
                    Layer("scatter", date, wave_height, <<>>, normalized_spread))
    /\ pc' = "fill_between"
    /\ UNCHANGED <<inputVars, error, f, defined, wave_forecast, date,
                   wave_height, wave_height_spread, wave_height_mean,
                   normalized_spread, stdout, axes, shown, harnessVars>>

Half == Fin(1, 2)

\* a band drawn around the wave height instead of the ensemble mean
BandAround(center, spread, factor, sign) ==
    [i \in 1..Len(center) |->
        FAdd(center[i], FMul(Num(sign), FMul(spread[i], factor)))]

\* wave_height_mean -/+ wave_height_spread * factor, element-wise
Band(mean, spread, factor, sign) ==
    [i \in 1..Len(mean) |->
        IF sign < 0 THEN FSub(mean[i], FMul(spread[i], factor))
        ELSE FAdd(mean[i], FMul(spread[i], factor))]

LowerWrong == BandAround(wave_height, wave_height_spread, Half, -1)

\* line 25: wave_height_mean - wave_height_spread * 0.5
Lower == Band(wave_height_mean, wave_height_spread, Half, -1)

\* line 26: wave_height_mean + wave_height_spread * 0.5
Upper == Band(wave_height_mean, wave_height_spread, Half, 1)

\* plt.fill_between(date, lower, upper, ...)
FillBetween ==
    /\ pc = "fill_between"
    /\ variant = "half"
    /\ layers' = Append(layers, Layer("fill_between", date, Lower, Upper, <<>>))
    /\ pc' = "labels"
    /\ UNCHANGED <<inputVars, error, f, defined, wave_forecast, date,
                   wave_height, wave_height_spread, wave_height_mean,
                   normalized_spread, stdout, axes, shown, harnessVars>>

\* the sibling variant that shades mean -/+ spread
FillBetweenFull ==
    /\ pc = "fill_between"
    /\ variant = "full"
    /\ layers' = Append(layers,
                    Layer("fill_between", date,
                          Band(wave_height_mean, wave_height_spread, Num(1), -1),
                          Band(wave_height_mean, wave_height_spread, Num(1), 1),
                          <<>>))
    /\ pc' = "labels"
    /\ UNCHANGED <<inputVars, error, f, defined, wave_forecast, date,
                   wave_height, wave_height_spread, wave_height_mean,
                   normalized_spread, stdout, axes, shown, harnessVars>>

\* plt.xlabel, plt.ylabel, plt.legend, plt.grid
Decorate ==
    /\ pc = "labels"
    /\ axes' = {"xlabel", "ylabel", "legend", "grid"}
    /\ pc' = "show"
    /\ UNCHANGED <<inputVars, error, f, defined, wave_forecast, date,
                   wave_height, wave_height_spread, wave_height_mean,
                   normalized_spread, stdout, layers, shown, harnessVars>>

\* plt.show()
Show ==
    /\ pc = "show"
    /\ shown' = TRUE
    /\ pc' = "done"
    /\ UNCHANGED <<inputVars, error, f, defined, wave_forecast, date,
                   wave_height, wave_height_spread, wave_height_mean,
                   normalized_spread, stdout, layers, axes, harnessVars>>

Next ==
    \/ Open
    \/ Load
    \/ ExtractDate
    \/ ExtractWaveHeight
    \/ ExtractSpread
    \/ ExtractMean
    \/ Derive
    \/ PrintMinMax
    \/ Plot
    \/ Scatter
    \/ FillBetween
    \/ FillBetweenFull
    \/ Decorate
    \/ Show

Spec == Init /\ [][Next]_vars

(***************************************************************************)
(* The timestamp conversion of lines 10-11 on its own: one call of         *)
(* strptime(d[:-1], fmt) on a date string d                                *)
(***************************************************************************)
Suffixes == {<<>>, <<"Z">>, <<"Z", "Z">>, <<".", "0", "Z">>}

\* zero-padded ISO texts, some of them no calendar date, followed by no,
\* one or several extra characters
DateInputs ==
    { IsoText(y, mo, d, h, mi, s) \o suf :
        y \in {2023, 2024}, mo \in {1, 2, 12}, d \in {1, 29, 31},
        h \in {0, 23}, mi \in {0, 59}, s \in {0, 5, 59}, suf \in Suffixes }

InitStrptime ==
    /\ file = "valid"
    /\ content = <<>>
    /\ variant = "half"
    /\ InitRun
    /\ arg \in DateInputs
    /\ ret = BadTime
    /\ returned = FALSE

CallStrptime ==
    /\ ~returned
    /\ ret' = ParseDate(arg)
    /\ returned' = TRUE
    /\ UNCHANGED <<runVars, arg>>

NextStrptime == CallStrptime

SpecStrptime == InitStrptime /\ [][NextStrptime]_vars

(***************************************************************************)
(* Vocabulary of the properties                                            *)
(***************************************************************************)
N == Len(content)

BeforeLoad == {"open", "load"}
ExtractSteps == {"date", "wave_height", "wave_height_spread", "wave_height_mean"}
BeforePrint == BeforeLoad \cup ExtractSteps \cup {"normalized_spread", "print"}

NoPartialResult ==
    /\ defined = {}
    /\ wave_forecast = <<>> /\ date = <<>> /\ wave_height = <<>>
    /\ wave_height_spread = <<>> /\ wave_height_mean = <<>>
    /\ normalized_spread = <<>>
    /\ stdout = <<>> /\ layers = <<>> /\ axes = {} /\ ~shown

NothingRendered == stdout = <<>> /\ layers = <<>> /\ axes = {} /\ ~shown

\* s reads YYYY-MM-DDTHH:MM:SS in its first 19 characters
IsoPrefix(s) ==
    /\ Len(s) >= 19
    /\ \A i \in {1, 2, 3, 4, 6, 7, 9, 10, 12, 13, 15, 16, 18, 19} : s[i] \in Digits
    /\ s[5] = "-" /\ s[8] = "-" /\ s[11] = "T" /\ s[14] = ":" /\ s[17] = ":"

\* the number written in the two characters of s from position i
TwoAt(s, i) == 10 * DigitVal(s[i]) + DigitVal(s[i + 1])

\* the calendar instant written in an IsoPrefix string
Written(s) ==
    DateTime(100 * TwoAt(s, 1) + TwoAt(s, 3), TwoAt(s, 6), TwoAt(s, 9),
             TwoAt(s, 12), TwoAt(s, 15), TwoAt(s, 18))

IsInstant(t) ==
    /\ t.year >= 1
    /\ t.month \in 1..12
    /\ t.day >= 1 /\ t.day <= DaysInMonth(t.year, t.month)
    /\ t.hour <= 23 /\ t.minute <= 59 /\ t.second <= 59

\* a well-formed date string: an instant in ISO text plus exactly one
\* trailing character
MarkedIso(s) == Len(s) = 20 /\ IsoPrefix(s) /\ IsInstant(Written(s))

\* the remainder after dropping the last character matches the pattern
RemainderMatches(s) == Len(s) = 20 /\ IsoPrefix(s)

(***************************************************************************)
(* C10  Timestamp parsing drops exactly the last character and reads the   *)
(* rest as YYYY-MM-DDTHH:MM:SS: a well-formed date string with one         *)
(* trailing marker yields the calendar instant written in it.              *)
(***************************************************************************)
\* C10: a returned call on a well-formed date string with one trailing
\* character yields exactly the instant written in its first 19 characters
C10_ParsesWrittenInstant ==
    (returned /\ MarkedIso(arg)) => ret = Written(arg)

\* C10 witness: "2024-01-01T00:00:00Z" was parsed to 2024-01-01 00:00:00
C10_Witness ==
    /\ returned
    /\ arg = <<"2","0","2","4","-","0","1","-","0","1","T",
               "0","0",":","0","0",":","0","0","Z">>
    /\ ret = DateTime(2024, 1, 1, 0, 0, 0)

(***************************************************************************)
(* C4  Whenever the date string does not consist of a YYYY-MM-DDTHH:MM:SS  *)
(* text plus one extra trailing character, parsing raises an error and     *)
(* never yields an instant.                                                *)
(***************************************************************************)
\* C4 as stated: a date string that is not a YYYY-MM-DDTHH:MM:SS text plus
\* one trailing character makes the call raise
C4_ErrorUnlessMarked ==
    (returned /\ ~RemainderMatches(arg)) => ~ret.ok

(***************************************************************************)
(* C3  The file handle is released on every exit path of the load step:    *)
(* once the run is past the load step, after a successful parse as well as *)
(* after a parse failure, the handle is closed and never open.             *)
(***************************************************************************)
\* C3: past the load step the handle is not open, and it is closed whenever
\* it was opened
C3_HandleReleased ==
    (pc \notin BeforeLoad) =>
        /\ f # "open"
        /\ (file # "missing" => f = "closed")

\* C3 witness: the parse failed and the handle is closed
C3_Witness == file = "malformed" /\ pc = "aborted" /\ f = "closed"

(***************************************************************************)
(* C2  A nonexistent path fails with FileNotFoundError and malformed       *)
(* content with JSONDecodeError; in both cases nothing was extracted,      *)
(* printed, drawn or shown.                                                *)
(***************************************************************************)
\* C2: a missing file aborts at open() with FileNotFoundError, malformed
\* content aborts at json.load with JSONDecodeError, and no name is bound,
\* nothing printed, drawn or shown
C2_LoadFailureLeavesNothing ==
    /\ (file = "missing" /\ pc # "open") =>
           pc = "aborted" /\ error = "FileNotFoundError" /\ NoPartialResult
    /\ (file = "malformed" /\ pc \notin BeforeLoad) =>
           pc = "aborted" /\ error = "JSONDecodeError" /\ NoPartialResult

\* C2 witness: a run on malformed content has aborted
C2_Witness ==
    file = "malformed" /\ pc = "aborted" /\ error = "JSONDecodeError" /\ stdout = <<>>

(***************************************************************************)
(* C1  Every extracted series, normalized_spread and both band bounds have *)
(* exactly one element per input record, and element i is computed from    *)
(* record i: nothing is sorted or filtered.                                *)
(***************************************************************************)
BandFactor == IF variant = "half" THEN Half ELSE Num(1)

\* C1: each series that is bound, and each layer drawn, has N elements and
\* its element i is the value computed from record i of the file
C1_LengthsAndOrder ==
    /\ "date" \in defined =>
          /\ Len(date) = N
          /\ \A i \in 1..N : date[i] = ParseDate(content[i].date)
    /\ "wave_height" \in defined =>
          /\ Len(wave_height) = N
          /\ \A i \in 1..N : wave_height[i] = content[i].wave_height
    /\ "wave_height_spread" \in defined =>
          /\ Len(wave_height_spread) = N
          /\ \A i \in 1..N : wave_height_spread[i] = content[i].wave_height_spread
    /\ "wave_height_mean" \in defined =>
          /\ Len(wave_height_mean) = N
          /\ \A i \in 1..N : wave_height_mean[i] = content[i].wave_height_mean
    /\ "normalized_spread" \in defined =>
          /\ Len(normalized_spread) = N
          /\ \A i \in 1..N :
                normalized_spread[i] =
                    FSub(Num(1), FDiv(content[i].wave_height_spread,
                                      content[i].wave_height_mean))
    /\ \A l \in 1..Len(layers) :
          /\ Len(layers[l].x) = N
          /\ Len(layers[l].y) = N
          /\ layers[l].kind = "scatter" => Len(layers[l].c) = N
          /\ layers[l].kind = "fill_between" =>
                /\ Len(layers[l].y2) = N
                /\ \A i \in 1..N :
                      /\ layers[l].y[i] =
                            FSub(content[i].wave_height_mean,
                                 FMul(content[i].wave_height_spread, BandFactor))
                      /\ layers[l].y2[i] =
                            FAdd(content[i].wave_height_mean,
                                 FMul(content[i].wave_height_spread, BandFactor))

\* C1 witness: a finished run on more than 48 records whose last two differ
C1_Witness ==
    /\ pc = "done"
    /\ N > PrintWindow
    /\ content[N] # content[N - 1]
    /\ Len(normalized_spread) = N
    /\ \E l \in 1..Len(layers) : layers[l].kind = "fill_between" /\ Len(layers[l].y2) = N

(***************************************************************************)
(* C7  For every record whose mean is finite and nonzero,                  *)
(* normalized_spread[i] = 1 - spread[i] / mean[i]; mean 10 and spread 2    *)
(* give 0.8.                                                               *)
(***************************************************************************)
Spread(i) == content[i].wave_height_spread
Mean(i) == content[i].wave_height_mean

\* x = 1 - sp/m for finite sp and finite nonzero m, by cross-multiplication
IsComplementOfRatio(x, sp, m) ==
    /\ x.k = "fin"
    /\ x.n * (sp.d * m.n) = x.d * (sp.d * m.n - sp.n * m.d)

\* C7: normalized_spread[i] is the rational 1 - spread/mean of record i
\* whenever the mean is nonzero, and 4/5 for mean 10, spread 2
C7_NormalizedSpreadValue ==
    "normalized_spread" \in defined =>
        \A i \in 1..N :
            /\ Mean(i).n # 0 =>
                  IsComplementOfRatio(normalized_spread[i], Spread(i), Mean(i))
            /\ (Mean(i) = Num(10) /\ Spread(i) = Num(2)) =>
                  normalized_spread[i] = [k |-> "fin", n |-> 4, d |-> 5]

\* C7 witness: a record with mean 10 and spread 2 was normalised to 4/5
C7_Witness ==
    /\ "normalized_spread" \in defined
    /\ \E i \in 1..N :
          /\ Mean(i) = Num(10)
          /\ Spread(i) = Num(2)
          /\ normalized_spread[i] = [k |-> "fin", n |-> 4, d |-> 5]

(***************************************************************************)
(* C8  The shaded band is computed per record from the ensemble mean and   *)
(* the spread only: mean -/+ 0.5 * spread in the half-spread variant       *)
(* (mean 5, spread 1: 4.5 and 5.5), mean -/+ spread in the full-spread     *)
(* variant (4 and 6); wave_height does not enter.                          *)
(***************************************************************************)
\* x = m + sign * sp / den for finite m and sp
IsOffset(x, m, sp, sign, den) ==
    /\ x.k = "fin"
    /\ x.n * (den * m.d * sp.d) = x.d * (den * m.n * sp.d + sign * sp.n * m.d)

BandDivisor == IF variant = "half" THEN 2 ELSE 1

\* C8: the bounds passed to fill_between are mean -/+ spread/2 (half) or
\* mean -/+ spread (full) of record i
C8_BandBounds ==
    \A l \in 1..Len(layers) :
        layers[l].kind = "fill_between" =>
            /\ Len(layers[l].y) = N /\ Len(layers[l].y2) = N
            /\ \A i \in 1..N :
                  /\ IsOffset(layers[l].y[i], Mean(i), Spread(i), -1, BandDivisor)
                  /\ IsOffset(layers[l].y2[i], Mean(i), Spread(i), 1, BandDivisor)
                  /\ (Mean(i) = Num(5) /\ Spread(i) = Num(1)) =>
                        IF variant = "half"
                        THEN /\ layers[l].y[i] = [k |-> "fin", n |-> 9, d |-> 2]
                             /\ layers[l].y2[i] = [k |-> "fin", n |-> 11, d |-> 2]
                        ELSE /\ layers[l].y[i] = Num(4)
                             /\ layers[l].y2[i] = Num(6)

\* C8 witness: the half-spread script finished on two records, the first
\* with mean 5 and spread 1 shaded from 9/2 to 11/2, the second with a wave
\* height different from its mean
C8_Witness ==
    /\ pc = "done"
    /\ variant = "half"
    /\ N = 2
    /\ Mean(1) = Num(5) /\ Spread(1) = Num(1)
    /\ content[2].wave_height # Mean(2)
    /\ \E l \in 1..Len(layers) :
          /\ layers[l].kind = "fill_between"
          /\ layers[l].y[1] = [k |-> "fin", n |-> 9, d |-> 2]
          /\ layers[l].y2[1] = [k |-> "fin", n |-> 11, d |-> 2]

(***************************************************************************)
(* C5  A record with mean 0 and nonzero spread gets a non-finite           *)
(* normalized_spread without an error: the derive step does not abort,     *)
(* the other records' values are unaffected, and the non-finite value      *)
(* reaches the printed min/max and the rendered scatter colours.           *)
(***************************************************************************)
ZeroMean(i) == Mean(i).n = 0 /\ Spread(i).n # 0

\* the derive step was reached and is over
Derived == "wave_height_mean" \in defined /\ pc # "normalized_spread"

\* C5, the part about the derive step and the scatter layer: the derive step
\* completes, a zero-mean record gets a non-finite value, the other values
\* are 1 - spread/mean, a line is printed, and the scatter colours carry the
\* non-finite value
C5_DeriveAndRender ==
    /\ Derived =>
          /\ "normalized_spread" \in defined
          /\ \A i \in 1..N :
                /\ ZeroMean(i) => ~IsFinite(normalized_spread[i])
                /\ Mean(i).n # 0 =>
                      IsComplementOfRatio(normalized_spread[i], Spread(i), Mean(i))
    /\ (Derived /\ pc # "print" /\ \E i \in 1..N : ZeroMean(i)) => Len(stdout) = 1
    /\ \A l \in 1..Len(layers) :
          layers[l].kind = "scatter" =>
              \A i \in 1..N : ZeroMean(i) => ~IsFinite(layers[l].c[i])

PrintedNonFinite == ~IsFinite(stdout[1].min) \/ ~IsFinite(stdout[1].max)

\* C5 as stated: the above, and the non-finite value of any such record
\* reaches the printed min/max
C5_AnyRecordReachesPrint ==
    /\ C5_DeriveAndRender
    /\ (stdout # <<>> /\ \E i \in 1..N : ZeroMean(i)) => PrintedNonFinite

\* C5 amended: the above, and the non-finite value reaches the printed
\* min/max when the record is among the first 48
C5_WindowRecordReachesPrint ==
    /\ C5_DeriveAndRender
    /\ (stdout # <<>> /\ \E i \in 1..Min2(N, PrintWindow) : ZeroMean(i))
          => PrintedNonFinite

\* C5 witness: a finished run on a finite record followed by a zero-mean
\* record: -inf in normalized_spread, in the printed minimum and in the
\* scatter colours
C5_Witness ==
    /\ pc = "done"
    /\ N = 2
    /\ ~ZeroMean(1) /\ Mean(1).n # 0
    /\ ZeroMean(2)
    /\ normalized_spread[2] = NegInf
    /\ stdout[1].min = NegInf
    /\ \E l \in 1..Len(layers) : layers[l].kind = "scatter" /\ layers[l].c[2] = NegInf

(***************************************************************************)
(* C6  If any record lacks one of the keys date, wave_summary,             *)
(* wave_height_spread or wave_height_mean, the run fails with a KeyError   *)
(* at the point where that field is accessed and no later step runs:       *)
(* nothing is printed, drawn or shown.                                     *)
(***************************************************************************)
ColumnOrder == <<"date", "wave_summary", "wave_height_spread", "wave_height_mean">>
SeriesOrder == <<"date", "wave_height", "wave_height_spread", "wave_height_mean">>

Lacking(k) == \E i \in 1..N : ColumnOrder[k] \notin content[i].keys

MissingSomeKey == file = "valid" /\ \E k \in 1..4 : Lacking(k)

\* the first comprehension that meets a missing key
FirstMissing == CHOOSE k \in 1..4 : Lacking(k) /\ \A j \in 1..(k - 1) : ~Lacking(j)

BoundBefore(k) == {"wave_forecast"} \cup {SeriesOrder[j] : j \in 1..(k - 1)}

StepsUpTo(k) == BeforeLoad \cup {SeriesOrder[j] : j \in 1..k}

\* the date comprehension meets a string strptime rejects before it meets
\* a record without a date
RejectedDateFirst ==
    \E i \in 1..N :
        /\ \A j \in 1..i : "date" \in content[j].keys
        /\ ~ParseDate(content[i].date).ok

\* C6 as stated: a missing key always ends the run with KeyError at the
\* first comprehension that meets it, with nothing printed, drawn or shown
C6_AlwaysKeyError ==
    MissingSomeKey =>
        /\ pc \in StepsUpTo(FirstMissing) \cup {"aborted"}
        /\ pc = "aborted" =>
              error = "KeyError" /\ defined = BoundBefore(FirstMissing)
        /\ NothingRendered

\* C6 amended: a date string that strptime rejects, met first, aborts the
\* run with a ValueError instead
C6_StructuralErrorAborts ==
    MissingSomeKey =>
        /\ pc \in StepsUpTo(FirstMissing) \cup {"aborted"}
        /\ pc = "aborted" =>
              IF RejectedDateFirst
              THEN error = "ValueError" /\ defined = {"wave_forecast"}
              ELSE error = "KeyError" /\ defined = BoundBefore(FirstMissing)
        /\ NothingRendered

\* C6 witness: the second record lacks wave_height_mean and the run aborted
\* with KeyError after binding the three series before it
C6_Witness ==
    /\ pc = "aborted"
    /\ error = "KeyError"
    /\ N = 2
    /\ content[1].keys = AllKeys
    /\ "wave_height_mean" \notin content[2].keys
    /\ defined = {"wave_forecast", "date", "wave_height", "wave_height_spread"}
    /\ stdout = <<>>

(***************************************************************************)
(* C9  For every valid input the run prints the minimum and the maximum of *)
(* normalized_spread over the first 48 records (all of them when there are *)
(* fewer), after the derive step and before any chart layer is drawn; this *)
(* holds for every record count, zero included.                            *)
(***************************************************************************)
ValidInput ==
    /\ file = "valid"
    /\ \A i \in 1..N : content[i].keys = AllKeys /\ MarkedIso(content[i].date)

WindowIdx == 1..Min2(N, PrintWindow)

PrintedMinMax ==
    /\ Len(stdout) = 1
    /\ (\A i \in WindowIdx : ~IsNaN(normalized_spread[i])) =>
          /\ \E i \in WindowIdx : stdout[1].min = normalized_spread[i]
          /\ \E i \in WindowIdx : stdout[1].max = normalized_spread[i]
          /\ \A i \in WindowIdx :
                /\ FLe(stdout[1].min, normalized_spread[i])
                /\ FLe(normalized_spread[i], stdout[1].max)

PrintOrder ==
    /\ pc \in BeforePrint => stdout = <<>> /\ layers = <<>>
    /\ stdout # <<>> => "normalized_spread" \in defined
    /\ layers # <<>> => Len(stdout) = 1

\* C9 as stated: for every valid input, the empty one included, a run past
\* the print step has printed the min and max of the window, and nothing is
\* printed before the derive step or drawn before the print step
C9_PrintsMinMax ==
    ValidInput => (pc \notin BeforePrint => PrintedMinMax) /\ PrintOrder

\* C9 restricted to inputs of at least one record, which is what the
\* script does
C9_NonEmptyPrintsMinMax ==
    (ValidInput /\ N >= 1) => (pc \notin BeforePrint => PrintedMinMax) /\ PrintOrder

====
